---- MODULE Spec2Model ----
(***************************************************************************)
(* A model of dioxus-redux (src/src/lib.rs): one store, the cache of       *)
(* memoized slices (Subscriptions), the Subscription objects held in the   *)
(* hooks of each scope, the unbounded event channel and its single         *)
(* consumer task.                                                          *)
(***************************************************************************)
EXTENDS Integers, Sequences, FiniteSets, TLC

\* Bounds of the model.
MaxDispatch == 3        \* events the channel accepts in one run
MaxEvents == 2          \* events dispatched in one run of the store with its subscribers
MaxSlices == 1          \* use_slice calls of one scope in one mount

Scopes == {"A", "B"}                \* ScopeId of the subscribing components
Producers == {"P1", "P2"}           \* clones of ReduxDispatcher
FunctionIds == {"s1", "s2", "s3"}   \* TypeId::of::<F>() of the slicers
EventKinds == {"Increment", "NoOp"}
Free == << >>                      \* a value cell nobody references; <<v>> holds v
NoScope == "NoScope"

\* The data a slicer of type F captures: s1 and s2 are plain functions, s3 is
\* a closure over a divisor.
Captures(f) == IF f = "s3" THEN {2, 3} ELSE {0}

Slicers == UNION {{[id |-> f, cap |-> c] : c \in Captures(f)} : f \in FunctionIds}

\* Names of the value cells: the function id of the entry a cell was made for,
\* and 0 or 1 to tell a new cell from one a Subscription still holds.
CellIds == FunctionIds \X {0, 1}

VARIABLES
    store,          \* ReduxStore.store: the user's state
    subscriptions,  \* ReduxStore.subscriptions: TypeId -> ValueEntry
    cells,          \* the Rc<RefCell<Box<dyn Any>>> cells holding cached values
    hooks,          \* per scope, the hook list holding its Subscription objects
    queue,          \* the async channel's buffer
    closed,         \* the receiver is gone: the consumer task has stopped
    faulted,        \* a panic unwound the caller
    lastDispatch,   \* outcome of the most recent dispatch call
    notified,       \* schedule_update_any calls made by the step just taken, per scope
    sent,           \* history: events in the order try_send accepted them
    applied,        \* history: events in the order handle applied them
    dropping,       \* the scope whose hooks the host is dropping, or NoScope
    evicted,        \* history: the entry last removed from the map, until it is back
    releases,       \* history: per scope and use_slice call, executions of drop
    given,          \* history: the slicer passed to the use_slice of the step just taken
    reader          \* per scope, the Rc<RefCell<Box<T>>> its last read() returned

vars == <<store, subscriptions, cells, hooks, queue, closed, faulted,
          lastDispatch, notified, sent, applied, dropping, evicted, releases,
          given, reader>>

----------------------------------------------------------------------------
\* The user's Store (the spec's counter) and its slicers.

\* Store::handle of the counter store.
StoreHandle(st, event) ==
    IF event.kind = "Increment" THEN [st EXCEPT !.count = @ + 1] ELSE st

\* slicer(store): s1 = count, s2 = count * 2, s3 = count / captured divisor.
Slice(slicer, st) ==
    CASE slicer.id = "s1" -> st.count
      [] slicer.id = "s2" -> st.count * 2
      [] slicer.id = "s3" -> st.count \div slicer.cap

----------------------------------------------------------------------------
\* Maps and cells.

RemoveKey(m, k) == [x \in DOMAIN m \ {k} |-> m[x]]

PutKey(m, k, v) == [x \in DOMAIN m \cup {k} |-> IF x = k THEN v ELSE m[x]]

\* The cells some ValueEntry of the map or some Subscription in a hook holds.
Referenced(subs, hks) ==
    {subs[f].value : f \in DOMAIN subs}
        \cup UNION {{hks[s][i].value : i \in 1 .. Len(hks[s])} : s \in Scopes}

\* Rc: a cell lives as long as something references it.
Reclaim(cs, subs, hks) ==
    [c \in CellIds |-> IF c \in Referenced(subs, hks) THEN cs[c] ELSE Free]

\* Rc::new: a cell nobody references yet.
NewCell(cs, function_id) ==
    IF cs[<<function_id, 0>>] = Free THEN <<function_id, 0>> ELSE <<function_id, 1>>

----------------------------------------------------------------------------
\* A subscribe that inserts over an existing entry instead of adding to it.
SubscribeInsert(subs, cs, st, scope_id, function_id, slicer) ==
    LET c == IF function_id \in DOMAIN subs THEN subs[function_id].value
             ELSE NewCell(cs, function_id) IN
    [subscriptions |-> PutKey(subs, function_id,
                              [scopes |-> {scope_id}, value |-> c, compare |-> slicer]),
     cells |-> [cs EXCEPT ![c] = <<Slice(slicer, st)>>]]

\* A subscribe that, on an existing entry, runs the caller's value getter and
\* comparer factory again and stores their results.
SubscribeRefresh(subs, cs, st, scope_id, function_id, slicer) ==
    IF function_id \in DOMAIN subs
    THEN [subscriptions |-> [subs EXCEPT ![function_id].scopes = @ \cup {scope_id},
                                         ![function_id].compare = slicer],
          cells |-> [cs EXCEPT ![subs[function_id].value] = <<Slice(slicer, st)>>]]
    ELSE LET c == NewCell(cs, function_id) IN
         [subscriptions |-> PutKey(subs, function_id,
                                   [scopes |-> {scope_id}, value |-> c, compare |-> slicer]),
          cells |-> [cs EXCEPT ![c] = <<Slice(slicer, st)>>]]

\* A subscribe that, on an existing entry, keeps the value and takes the
\* comparer of the caller.
SubscribeLastComparer(subs, cs, st, scope_id, function_id, slicer) ==
    IF function_id \in DOMAIN subs
    THEN [subscriptions |-> [subs EXCEPT ![function_id].scopes = @ \cup {scope_id},
                                         ![function_id].compare = slicer],
          cells |-> cs]
    ELSE LET c == NewCell(cs, function_id) IN
         [subscriptions |-> PutKey(subs, function_id,
                                   [scopes |-> {scope_id}, value |-> c, compare |-> slicer]),
          cells |-> [cs EXCEPT ![c] = <<Slice(slicer, st)>>]]

\* ReduxStore::subscribe, with the value getter and the comparer use_slice
\* passes: the entry API keeps an existing entry and adds the scope to it, or
\* inserts a new entry whose value is computed now and whose comparer closes
\* over the caller's slicer.
Subscribe(subs, cs, st, scope_id, function_id, slicer) ==
    IF function_id \in DOMAIN subs
    THEN [subscriptions |-> [subs EXCEPT ![function_id].scopes = @ \cup {scope_id}],
          cells |-> cs]
    ELSE LET c == NewCell(cs, function_id) IN
         [subscriptions |-> PutKey(subs, function_id,
                                   [scopes |-> {scope_id}, value |-> c, compare |-> slicer]),
          cells |-> [cs EXCEPT ![c] = <<Slice(slicer, st)>>]]

\* The Subscription subscribe returns: a clone of the entry (its value cell),
\* the function id and the scope id.
NewSubscription(subs, scope_id, function_id, hook) ==
    [hook |-> hook, function_id |-> function_id, scope_id |-> scope_id,
     value |-> subs[function_id].value]

\* A drop that unsubscribes the scope and never removes the entry.
SubscriptionDropKeepEntry(subs, sub) ==
    IF sub.function_id \in DOMAIN subs
    THEN [subs EXCEPT ![sub.function_id].scopes = @ \ {sub.scope_id}]
    ELSE subs

\* A drop that removes the entry whenever its own scope leaves it.
SubscriptionDropEvict(subs, sub) ==
    IF sub.function_id \in DOMAIN subs /\ sub.scope_id \in subs[sub.function_id].scopes
    THEN RemoveKey(subs, sub.function_id)
    ELSE subs

\* A drop that leaves the scope in a set other scopes share.
SubscriptionDropKeepScope(subs, sub) ==
    IF sub.function_id \in DOMAIN subs /\ subs[sub.function_id].scopes = {sub.scope_id}
    THEN RemoveKey(subs, sub.function_id)
    ELSE subs

\* A drop that tests the size of the scope set before it removes the scope.
SubscriptionDropCountFirst(subs, sub) ==
    IF sub.function_id \in DOMAIN subs
    THEN IF Cardinality(subs[sub.function_id].scopes) <= 1
         THEN RemoveKey(subs, sub.function_id)
         ELSE [subs EXCEPT ![sub.function_id].scopes = @ \ {sub.scope_id}]
    ELSE subs

\* Drop for Subscription: unsubscribe the scope, and remove the entry when no
\* scope is left; nothing when the entry is not in the map.
SubscriptionDrop(subs, sub) ==
    IF sub.function_id \in DOMAIN subs
    THEN LET scopes == subs[sub.function_id].scopes \ {sub.scope_id} IN
         IF scopes = {}
         THEN RemoveKey(subs, sub.function_id)
         ELSE [subs EXCEPT ![sub.function_id].scopes = scopes]
    ELSE subs

\* A comparer that reports the change and leaves the cached value as it was.
CompareKeepCached(slicer, st, cached) ==
    [is_equal |-> cached[1] = Slice(slicer, st), value |-> cached]

\* A comparer that never finds the values equal.
CompareNeverEqual(slicer, st, cached) ==
    [is_equal |-> FALSE, value |-> <<Slice(slicer, st)>>]

\* The comparer closure of use_slice: recompute the slice, compare it with the
\* cached value, replace the cached value when they differ.
Compare(slicer, st, cached) ==
    LET current == Slice(slicer, st) IN
    [is_equal |-> cached[1] = current,
     value |-> IF cached[1] = current THEN cached ELSE <<current>>]

\* A handle that, once some entry changed, schedules the scopes of every entry.
HandleMarkAll(st, subs, cs, event) ==
    LET st2 == StoreHandle(st, event)
        res == [f \in DOMAIN subs |-> Compare(subs[f].compare, st2, cs[subs[f].value])]
        any == \E f \in DOMAIN subs : ~res[f].is_equal
    IN  [store |-> st2,
         cells |-> [c \in CellIds |->
                       IF \E f \in DOMAIN subs : subs[f].value = c
                       THEN res[CHOOSE f \in DOMAIN subs : subs[f].value = c].value
                       ELSE cs[c]],
         notified |-> [s \in Scopes |->
                          IF any THEN Cardinality({f \in DOMAIN subs : s \in subs[f].scopes})
                          ELSE 0]]

\* A handle that schedules only one of the scopes of an entry that changed.
HandleMarkOne(st, subs, cs, event) ==
    LET st2 == StoreHandle(st, event)
        res == [f \in DOMAIN subs |-> Compare(subs[f].compare, st2, cs[subs[f].value])]
    IN  [store |-> st2,
         cells |-> [c \in CellIds |->
                       IF \E f \in DOMAIN subs : subs[f].value = c
                       THEN res[CHOOSE f \in DOMAIN subs : subs[f].value = c].value
                       ELSE cs[c]],
         notified |-> [s \in Scopes |->
                          Cardinality({f \in DOMAIN subs :
                                          /\ ~res[f].is_equal
                                          /\ s = CHOOSE x \in subs[f].scopes : TRUE})]]

\* ReduxStore::handle: the store handles the event, then every entry's
\* comparer runs against its cell and the scopes of the entries that changed
\* are scheduled for an update.
Handle(st, subs, cs, event) ==
    LET st2 == StoreHandle(st, event)
        res == [f \in DOMAIN subs |-> Compare(subs[f].compare, st2, cs[subs[f].value])]
        cellOf == [c \in CellIds |-> {f \in DOMAIN subs : subs[f].value = c}]
    IN  [store |-> st2,
         cells |-> [c \in CellIds |->
                       IF cellOf[c] = {} THEN cs[c]
                       ELSE res[CHOOSE f \in cellOf[c] : TRUE].value],
         notified |-> [s \in Scopes |->
                          Cardinality({f \in DOMAIN subs :
                                          ~res[f].is_equal /\ s \in subs[f].scopes})]]

\* A send that puts the event at the front of the buffer.
TrySendFront(q, isClosed, event) ==
    IF isClosed THEN [result |-> "Closed", queue |-> q]
    ELSE [result |-> "Ok", queue |-> <<event>> \o q]

\* A send that accepts every event and keeps it only if the buffer is empty.
TrySendLossy(q, isClosed, event) ==
    IF isClosed THEN [result |-> "Closed", queue |-> q]
    ELSE [result |-> "Ok", queue |-> IF q = << >> THEN <<event>> ELSE q]

\* async_channel try_send on the unbounded channel: the event goes to the back
\* of the buffer unless the channel is closed.
TrySend(q, isClosed, event) ==
    IF isClosed THEN [result |-> "Closed", queue |-> q]
    ELSE [result |-> "Ok", queue |-> Append(q, event)]

\* The event a producer sends, tagged with the producer and its running number.
Event(kind, p) ==
    [kind |-> kind, from |-> p,
     n |-> 1 + Cardinality({i \in 1 .. Len(sent) : sent[i].from = p})]

----------------------------------------------------------------------------
\* What a handle made by downcast shows: the value cell, or, the cast being
\* undefined behaviour, anything.
Views == {"Cell", "Undefined"}

\* use_init_store has run: the store is created, the map is empty, the channel
\* is open and the consumer task waits on it.
Init ==
    /\ store = [count |-> 0]
    /\ subscriptions = << >>
    /\ cells = [c \in CellIds |-> Free]
    /\ hooks = [s \in Scopes |-> << >>]
    /\ queue = << >>
    /\ closed = FALSE
    /\ faulted = FALSE
    /\ lastDispatch = [onClosed |-> FALSE, result |-> "None"]
    /\ notified = [s \in Scopes |-> 0]
    /\ sent = << >>
    /\ applied = << >>
    /\ dropping = NoScope
    /\ evicted = << >>
    /\ releases = [s \in Scopes |-> << >>]
    /\ given = << >>
    /\ reader = [s \in Scopes |-> << >>]

Running == ~faulted /\ dropping = NoScope

\* The record of the last removal is kept until the step after the one that
\* made a new entry for the same function id.
Settled ==
    IF evicted # << >> /\ evicted[1].function_id \in DOMAIN subscriptions
    THEN << >> ELSE evicted

\* use_slice on its first render in scope s: subscribe, keep the Subscription
\* in one hook and a clone of it, inside the ReduxSlice, in the next hook.
UseSlice(s, slicer) ==
    /\ Running
    /\ hooks[s] # << >> => Len(releases[s]) < MaxSlices
    /\ LET r == Subscribe(subscriptions, cells, store, s, slicer.id, slicer)
           sub == NewSubscription(r.subscriptions, s, slicer.id, "Subscription")
           clone == [sub EXCEPT !.hook = "ReduxSlice"]
       IN  /\ subscriptions' = r.subscriptions
           /\ cells' = r.cells
           /\ hooks' = [hooks EXCEPT ![s] = @ \o <<sub, clone>>]
    /\ releases' = [releases EXCEPT
                       ![s] = IF hooks[s] = << >> THEN <<0>> ELSE Append(@, 0)]
    /\ given' = <<slicer>>
    /\ notified' = [x \in Scopes |-> 0]
    /\ evicted' = Settled
    /\ UNCHANGED <<store, queue, closed, faulted, lastDispatch, sent, applied, dropping,
                   reader>>

\* The host drops scope s: its hooks are dropped one after the other, in the
\* order they were created, and nothing else runs until the last one is gone.
DropHook(s) ==
    /\ ~faulted
    /\ dropping \in {NoScope, s}
    /\ hooks[s] # << >>
    /\ LET sub == Head(hooks[s])
           call == ((2 * Len(releases[s]) - Len(hooks[s])) \div 2) + 1
           subs2 == SubscriptionDrop(subscriptions, sub)
           hooks2 == [hooks EXCEPT ![s] = Tail(@)]
       IN  /\ subscriptions' = subs2
           /\ hooks' = hooks2
           /\ cells' = Reclaim(cells, subs2, hooks2)
           /\ releases' = [releases EXCEPT ![s][call] = @ + 1]
           /\ dropping' = IF Tail(hooks[s]) = << >> THEN NoScope ELSE s
           /\ given' = << >>
           /\ reader' = IF Tail(hooks[s]) = << >> THEN [reader EXCEPT ![s] = << >>]
                         ELSE reader
           /\ evicted' = IF DOMAIN subs2 # DOMAIN subscriptions
                          THEN <<[function_id |-> sub.function_id,
                                  compare |-> subscriptions[sub.function_id].compare,
                                  value |-> cells[subscriptions[sub.function_id].value][1]]>>
                          ELSE Settled
    /\ notified' = [x \in Scopes |-> 0]
    /\ UNCHANGED <<store, queue, closed, faulted, lastDispatch, sent, applied>>

\* A dispatch that also applies the event to the store in the caller.
DispatchApply(p, kind) ==
    /\ Running
    /\ Len(sent) < MaxDispatch
    /\ LET r == TrySend(queue, closed, Event(kind, p)) IN
       /\ queue' = r.queue
       /\ sent' = IF r.result = "Ok" THEN Append(sent, Event(kind, p)) ELSE sent
       /\ faulted' = (r.result # "Ok")
       /\ lastDispatch' = [onClosed |-> closed,
                           result |-> IF r.result = "Ok" THEN "Ok" ELSE "Panic"]
    /\ store' = StoreHandle(store, Event(kind, p))
    /\ notified' = [x \in Scopes |-> 0]
    /\ evicted' = Settled
    /\ given' = << >>
    /\ UNCHANGED <<subscriptions, cells, hooks, closed, applied, dropping, releases,
                   reader>>

\* ReduxDispatcher::dispatch: try_send(event).unwrap().
Dispatch(p, kind) ==
    /\ Running
    /\ Len(sent) < MaxDispatch
    /\ LET r == TrySend(queue, closed, Event(kind, p)) IN
       /\ queue' = r.queue
       /\ sent' = IF r.result = "Ok" THEN Append(sent, Event(kind, p)) ELSE sent
       /\ faulted' = (r.result # "Ok")
       /\ lastDispatch' = [onClosed |-> closed,
                           result |-> IF r.result = "Ok" THEN "Ok" ELSE "Panic"]
    /\ notified' = [x \in Scopes |-> 0]
    /\ evicted' = Settled
    /\ given' = << >>
    /\ UNCHANGED <<store, subscriptions, cells, hooks, closed, applied, dropping, releases,
                   reader>>

\* The consumer task of use_init_store: recv() yields the oldest event and
\* handle applies it.
ConsumerRecv ==
    /\ Running
    /\ ~closed
    /\ queue # << >>
    /\ LET r == Handle(store, subscriptions, cells, Head(queue)) IN
       /\ store' = r.store
       /\ cells' = r.cells
       /\ notified' = r.notified
    /\ queue' = Tail(queue)
    /\ applied' = Append(applied, Head(queue))
    /\ evicted' = Settled
    /\ given' = << >>
    /\ UNCHANGED <<subscriptions, hooks, closed, faulted, lastDispatch, sent,
                   dropping, releases, reader>>

\* The host drops the consumer task and with it the receiver: the channel is
\* closed.
ConsumerStop ==
    /\ Running
    /\ ~closed
    /\ closed' = TRUE
    /\ notified' = [x \in Scopes |-> 0]
    /\ evicted' = Settled
    /\ given' = << >>
    /\ UNCHANGED <<store, subscriptions, cells, hooks, queue, faulted, lastDispatch,
                   sent, applied, dropping, releases, reader>>

\* ReduxSlice::read in scope s on its i-th hook: the value cell of the
\* Subscription is cloned and downcast turns the Rc<RefCell<Box<dyn Any>>>
\* into an Rc<RefCell<Box<T>>> with Rc::into_raw and Rc::from_raw. The two
\* RefCell types differ in size (a Box<dyn Any> is two words, a Box<T> one),
\* which Rc::from_raw does not allow: the behaviour is undefined, and what
\* the returned handle shows is either the cell or anything else. The scope
\* keeps the handle until its hooks are dropped.
Read(s, i) ==
    /\ Running
    /\ i \in 1 .. Len(hooks[s])
    /\ hooks[s][i].hook = "ReduxSlice"
    /\ \E view \in Views :
          reader' = [reader EXCEPT ![s] = <<[function_id |-> hooks[s][i].function_id,
                                             value |-> hooks[s][i].value,
                                             view |-> view]>>]
    /\ notified' = [x \in Scopes |-> 0]
    /\ evicted' = Settled
    /\ given' = << >>
    /\ UNCHANGED <<store, subscriptions, cells, hooks, queue, closed, faulted,
                   lastDispatch, sent, applied, dropping, releases>>

\* dispatch from the one dispatcher of the store with its subscribers.
StoreDispatch(kind) == Len(sent) < MaxEvents /\ Dispatch("P1", kind)

\* The store with its subscribers and one dispatcher.
Next ==
    \/ \E s \in Scopes, slicer \in Slicers : UseSlice(s, slicer)
    \/ \E s \in Scopes : DropHook(s)
    \/ \E kind \in EventKinds : StoreDispatch(kind)
    \/ ConsumerRecv
    \/ ConsumerStop

Spec == Init /\ [][Next]_vars

\* The channel with every clone of the dispatcher sending, and one subscriber.
NextChannel ==
    \/ UseSlice("A", [id |-> "s1", cap |-> 0])
    \/ DropHook("A")
    \/ \E p \in Producers, kind \in EventKinds : Dispatch(p, kind)
    \/ ConsumerRecv
    \/ ConsumerStop

SpecChannel == Init /\ [][NextChannel]_vars

\* The host, once it has begun to drop a scope, drops all of its hooks.
FinishDrop == dropping = "A" /\ DropHook("A")

\* The channel with the executor polling the consumer task again and again
\* as long as it lives: the task is woken by every send, and the renders and
\* drops the executor runs in between are finite.
SpecLive ==
    Init /\ [][NextChannel]_vars /\ SF_vars(ConsumerRecv) /\ WF_vars(FinishDrop)

\* The store with both scopes subscribing under s1 or s2, reading their
\* slices and dispatching.
NextRead ==
    \/ \E s \in Scopes, f \in {"s1", "s2"} : UseSlice(s, [id |-> f, cap |-> 0])
    \/ \E s \in Scopes : DropHook(s)
    \/ \E s \in Scopes, i \in 1 .. 2 * MaxSlices : Read(s, i)
    \/ \E kind \in EventKinds : StoreDispatch(kind)
    \/ ConsumerRecv
    \/ ConsumerStop

SpecRead == Init /\ [][NextRead]_vars

----------------------------------------------------------------------------
\* What the properties below read.

\* The cached value of the entry of function id f.
Cached(f) == cells[subscriptions[f].value][1]

\* The function ids of the Subscription objects scope s still holds.
Held(s) == {hooks[s][i].function_id : i \in 1 .. Len(hooks[s])}

\* The scopes that hold a Subscription for f and have released none.
Holders(f) == {s \in Scopes : f \in Held(s) /\ dropping # s}

\* Scope s is subscribed under f and under nothing else.
OnlyUnder(s, f) ==
    /\ f \in DOMAIN subscriptions
    /\ s \in subscriptions[f].scopes
    /\ \A g \in DOMAIN subscriptions : s \in subscriptions[g].scopes => g = f

----------------------------------------------------------------------------
\* C1 (freshness): in every reachable state, the cached value of every entry
\* in the map equals the entry's slicer applied to the current store state.
\* handle is one step, so no state lies inside an apply.
Freshness ==
    \A f \in DOMAIN subscriptions :
        cells[subscriptions[f].value] = <<Slice(subscriptions[f].compare, store)>>

\* The step just taken made an entry anew while an event was still queued and
\* after another had been applied: its value is the slice of the current
\* state, not of the initial one.
FreshnessWitness ==
    /\ applied # << >>
    /\ queue # << >>
    /\ evicted # << >>
    /\ evicted[1].function_id \in DOMAIN subscriptions
    /\ LET f == evicted[1].function_id IN
          /\ Cached(f) # Slice(subscriptions[f].compare, [count |-> 0])
          /\ Cached(f) = Slice(subscriptions[f].compare, store)

\* C2 (isolation): when handle applies an event and the slicer of an entry
\* yields the same value on the state before and the state after, no scope
\* subscribed only under that entry is scheduled for an update.
Isolation ==
    [][applied' # applied =>
        \A f \in DOMAIN subscriptions :
            Slice(subscriptions[f].compare, store) = Slice(subscriptions[f].compare, store')
                => \A s \in Scopes : OnlyUnder(s, f) => notified'[s] = 0]_vars

\* An apply just changed one entry and scheduled its scope, and left alone a
\* scope subscribed only under an entry whose value stayed.
IsolationWitness ==
    \E f \in DOMAIN subscriptions, s, u \in Scopes :
        /\ OnlyUnder(s, f)
        /\ notified[s] = 0
        /\ notified[u] > 0
        /\ applied # << >>
        /\ Slice(subscriptions[f].compare, store)
              = Slice(subscriptions[f].compare, [count |-> store.count - 1])

\* C3 (dedup): a function id has one entry, and while scopes hold
\* Subscriptions for it the entry is in the map and its scope set contains
\* every one of them; the scope set lists only scopes that hold one.
Dedup ==
    \A f \in FunctionIds :
        /\ Holders(f) # {} => f \in DOMAIN subscriptions
        /\ f \in DOMAIN subscriptions =>
              /\ Holders(f) \subseteq subscriptions[f].scopes
              /\ \A s \in subscriptions[f].scopes : f \in Held(s)

\* Every scope subscribed with the same function id: one entry lists them all.
DedupWitness ==
    \E f \in DOMAIN subscriptions :
        /\ Holders(f) = Scopes
        /\ subscriptions[f].scopes = Scopes

\* C4 (ref-count cleanup): the step that releases the last Subscription held
\* for a function id leaves no entry for it, and a step that makes an entry
\* for an id that had none gives it the subscriber as its only scope and the
\* subscriber's slicer applied to the store state of that moment as its value.
RefCountCleanup ==
    [][\A f \in FunctionIds :
          /\ ((\E s \in Scopes : f \in Held(s)) /\ (\A s \in Scopes : f \notin Held(s)'))
                => f \notin DOMAIN subscriptions'
          /\ (f \notin DOMAIN subscriptions /\ f \in DOMAIN subscriptions')
                => /\ cells'[subscriptions'[f].value]
                         = <<Slice(subscriptions'[f].compare, store)>>
                   /\ \E s \in Scopes :
                         /\ subscriptions'[f].scopes = {s}
                         /\ Len(hooks'[s]) = Len(hooks[s]) + 2]_vars

\* An entry was removed, events were applied, and the entry made afterwards
\* for the same function id and slicer holds another value than the removed one.
RefCountCleanupWitness ==
    /\ evicted # << >>
    /\ evicted[1].function_id \in DOMAIN subscriptions
    /\ subscriptions[evicted[1].function_id].compare = evicted[1].compare
    /\ Cached(evicted[1].function_id) # evicted[1].value
    /\ Cached(evicted[1].function_id)
          = Slice(evicted[1].compare, store)

\* C5 (no entry without subscribers): every entry in the map has a non-empty
\* scope set; a drop that leaves other scopes in the set keeps the entry with
\* its value cell, cached value and comparer, and a drop that empties the set
\* removes the entry in the same step.
NonEmptyScopes ==
    /\ \A f \in DOMAIN subscriptions : subscriptions[f].scopes # {}
    /\ [][/\ \A f \in DOMAIN subscriptions' : subscriptions'[f].scopes # {}
          /\ \A s \in Scopes :
                (hooks'[s] # hooks[s] /\ Len(hooks'[s]) < Len(hooks[s]))
                   => LET f == Head(hooks[s]).function_id IN
                      f \in DOMAIN subscriptions =>
                         IF subscriptions[f].scopes \ {s} # {}
                         THEN /\ f \in DOMAIN subscriptions'
                              /\ subscriptions'[f].scopes = subscriptions[f].scopes \ {s}
                              /\ subscriptions'[f].value = subscriptions[f].value
                              /\ subscriptions'[f].compare = subscriptions[f].compare
                              /\ cells'[subscriptions'[f].value] = cells[subscriptions[f].value]
                         ELSE f \notin DOMAIN subscriptions']_vars

\* A scope has released its first Subscription for an entry another scope
\* keeps alive: the entry is still in the map, without the scope.
NonEmptyScopesWitness ==
    \E s \in Scopes :
        /\ dropping = s
        /\ \E f \in Held(s) :
              /\ f \in DOMAIN subscriptions
              /\ subscriptions[f].scopes = Scopes \ {s}

\* C6 (entry iff active Subscription), as claimed: a function id has an entry
\* exactly when some Subscription object for it has not been dropped yet.
EntryIffActiveSubscription ==
    \A f \in FunctionIds :
        f \in DOMAIN subscriptions <=> \E s \in Scopes : f \in Held(s)

\* C7 (ordering): the events applied so far are the first events of the order
\* in which try_send accepted them, the buffer holds the rest in that order,
\* and the events of one producer are applied in the order of their numbers.
Ordering ==
    /\ applied \o queue = sent
    /\ \A i, j \in 1 .. Len(applied) :
          (i < j /\ applied[i].from = applied[j].from) => applied[i].n < applied[j].n
    /\ \A p \in Producers, k \in 1 .. Len(applied) :
          (applied[k].from = p)
             => applied[k].n = Cardinality({i \in 1 .. k : applied[i].from = p})

\* Three events applied, two producers interleaved, two of the events from
\* one producer.
OrderingWitness ==
    /\ Len(applied) = 3
    /\ applied[1].from = "P1" /\ applied[1].kind = "Increment"
    /\ applied[2].from = "P2"
    /\ applied[3].from = "P1" /\ applied[3].kind = "NoOp"
    /\ subscriptions # << >>

\* C8 (dispatch after close), as claimed: a dispatch made on the closed
\* channel reports ChannelClosed to its caller and nothing is unwound.
DispatchAfterCloseReported ==
    lastDispatch.onClosed => (lastDispatch.result = "ChannelClosed" /\ ~faulted)

\* The scopes A and B hold one Subscription each, A for s1 and B for s2.
ScenarioSubscribers(subs) ==
    /\ DOMAIN subs = {"s1", "s2"}
    /\ subs["s1"].scopes = {"A"}
    /\ subs["s2"].scopes = {"B"}

\* C9 (scenario): from count = 0 with A on s1 and B on s2, applying Increment
\* schedules A and B and leaves s1 = 1 and s2 = 2 cached; applying NoOp next
\* schedules neither and leaves both cached values.
Scenario ==
    [][(ScenarioSubscribers(subscriptions) /\ applied' # applied) =>
         /\ (applied = << >> /\ Head(queue).kind = "Increment")
               => /\ notified'["A"] = 1 /\ notified'["B"] = 1
                  /\ cells'[subscriptions'["s1"].value] = <<1>>
                  /\ cells'[subscriptions'["s2"].value] = <<2>>
         /\ (Len(applied) = 1 /\ applied[1].kind = "Increment" /\ Head(queue).kind = "NoOp")
               => /\ notified'["A"] = 0 /\ notified'["B"] = 0
                  /\ cells'[subscriptions'["s1"].value] = <<1>>
                  /\ cells'[subscriptions'["s2"].value] = <<2>>]_vars

\* The state right after the NoOp that followed the Increment.
ScenarioWitness ==
    /\ ScenarioSubscribers(subscriptions)
    /\ Len(applied) = 2 /\ applied[1].kind = "Increment" /\ applied[2].kind = "NoOp"
    /\ store.count = 1
    /\ notified = [s \in Scopes |-> 0]
    /\ Cached("s1") = 1 /\ Cached("s2") = 2
    /\ releases = [s \in Scopes |-> <<0>>]

\* C10 (release exactly once), as claimed: the drop of the subscription of
\* one use_slice call never runs twice, and has run once when the scope's
\* hooks are gone.
ReleaseExactlyOnce ==
    \A s \in Scopes : \A i \in 1 .. Len(releases[s]) :
        /\ releases[s][i] <= 1
        /\ hooks[s] = << >> => releases[s][i] = 1

\* C11 (closed channel), as claimed: once the channel is closed no event is
\* applied, nothing is unwound, and every dispatch reports ChannelClosed.
ClosedChannelSilent ==
    [][closed =>
          /\ applied' = applied
          /\ store' = store
          /\ ~faulted'
          /\ lastDispatch' # lastDispatch => lastDispatch'.result = "ChannelClosed"]_vars

\* C12 (notification completeness): when handle applies an event, every entry
\* whose slicer yields another value on the new state than the cached one has
\* its cached value replaced by the new one, and every scope is scheduled once
\* for each such entry that lists it.
NotificationComplete ==
    [][applied' # applied =>
          LET changed == {f \in DOMAIN subscriptions :
                             cells[subscriptions[f].value]
                                # <<Slice(subscriptions[f].compare, store')>>}
          IN  /\ \A f \in changed :
                    cells'[subscriptions[f].value]
                       = <<Slice(subscriptions[f].compare, store')>>
              /\ \A s \in Scopes :
                    notified'[s] >= Cardinality({f \in changed : s \in subscriptions[f].scopes})]_vars

\* An apply just changed the value of an entry that lists every scope, and
\* scheduled every one of them.
NotificationCompleteWitness ==
    /\ applied # << >>
    /\ \A s \in Scopes : notified[s] > 0
    /\ \E f \in DOMAIN subscriptions :
          /\ subscriptions[f].scopes = Scopes
          /\ Cached(f) # Slice(subscriptions[f].compare, [count |-> store.count - 1])

\* C13 (subscribe on an existing entry): a use_slice whose function id has an
\* entry adds the scope to the entry's scope set and changes nothing else of
\* the map or of the cells: the value cell, the cached value and the comparer
\* stay, and the Subscription made refers to the entry's value cell.
SubscribeExistingFrame ==
    [][\A s \in Scopes :
          Len(hooks'[s]) > Len(hooks[s]) =>
             LET sub == hooks'[s][Len(hooks[s]) + 1]
                 f == sub.function_id
             IN  f \in DOMAIN subscriptions =>
                    /\ subscriptions'
                          = [subscriptions EXCEPT ![f].scopes = @ \cup {s}]
                    /\ cells' = cells
                    /\ sub.value = subscriptions[f].value
                    /\ hooks'[s][Len(hooks[s]) + 2].value = subscriptions[f].value]_vars

\* The s3 entry lists every scope, so one of them subscribed when the entry
\* was there; the cached value is the one of the entry's own comparer, for
\* a count on which the two captured divisors differ.
SubscribeExistingFrameWitness ==
    /\ "s3" \in DOMAIN subscriptions
    /\ subscriptions["s3"].scopes = Scopes
    /\ store.count = 2
    /\ Cached("s3") = Slice(subscriptions["s3"].compare, store)

\* C18 (no notification after release): a scope that holds no Subscription
\* any more is in no scope set and is not scheduled by any apply.
NoDirtyAfterRelease ==
    \A s \in Scopes :
        Held(s) = {} =>
           /\ notified[s] = 0
           /\ \A f \in DOMAIN subscriptions : s \notin subscriptions[f].scopes

\* A scope has dropped all its hooks, and an apply has just scheduled the
\* other scope for an entry that is still alive.
NoDirtyAfterReleaseWitness ==
    \E s, u \in Scopes :
        /\ hooks[s] = << >>
        /\ releases[s] # << >>
        /\ \A i \in 1 .. Len(releases[s]) : releases[s][i] = 2
        /\ notified[u] > 0
        /\ notified[s] = 0

\* C20 (release is idempotent): the drop of the clone held in the ReduxSlice,
\* which follows the drop of the Subscription of the same use_slice call,
\* changes neither the map nor a cached value; and dropping twice for any
\* scope and function id gives the map that dropping once gives.
ReleaseIdempotent ==
    [][/\ \A s \in Scopes :
             (Len(hooks'[s]) < Len(hooks[s]) /\ Head(hooks[s]).hook = "ReduxSlice")
                => /\ subscriptions' = subscriptions
                   /\ \A f \in DOMAIN subscriptions :
                         cells'[subscriptions[f].value] = cells[subscriptions[f].value]
       /\ \A s \in Scopes, f \in FunctionIds :
             LET sub == [function_id |-> f, scope_id |-> s]
                 once == SubscriptionDrop(subscriptions, sub)
             IN  SubscriptionDrop(once, sub) = once]_vars

\* Both drops of a scope's use_slice call have run, and the entry another
\* scope keeps alive is still in the map.
ReleaseIdempotentWitness ==
    \E s \in Scopes :
        /\ hooks[s] = << >>
        /\ releases[s] # << >>
        /\ \A i \in 1 .. Len(releases[s]) : releases[s][i] = 2
        /\ \E f \in DOMAIN subscriptions : subscriptions[f].scopes = Scopes \ {s}
        /\ evicted = << >>

\* C19 (aliased slicers): the comparer of an entry is the slicer of the
\* use_slice call that created the entry and stays the same as long as the
\* entry is in the map, whoever subscribes or releases; a use_slice on an
\* existing entry leaves the cached value, whatever slicer it passes; and
\* after every step the cached value is the entry's own slicer applied to
\* the store, and an apply schedules exactly the scopes of the entries whose
\* own slicer changed its value.
AliasFollowsCreator ==
    [][/\ \A f \in DOMAIN subscriptions \cap DOMAIN subscriptions' :
             subscriptions'[f].compare = subscriptions[f].compare
       /\ given' # << >> =>
             LET f == given'[1].id IN
             IF f \in DOMAIN subscriptions
             THEN cells'[subscriptions'[f].value] = cells[subscriptions[f].value]
             ELSE subscriptions'[f].compare = given'[1]
       /\ \A f \in DOMAIN subscriptions' :
             cells'[subscriptions'[f].value]
                = <<Slice(subscriptions'[f].compare, store')>>
       /\ applied' # applied =>
             \A s \in Scopes :
                notified'[s] > 0 <=>
                   \E f \in DOMAIN subscriptions :
                      /\ s \in subscriptions[f].scopes
                      /\ Slice(subscriptions[f].compare, store)
                            # Slice(subscriptions[f].compare, store')]_vars

\* The use_slice just run passed a divisor other than the one the s3 entry
\* was created with, for a count on which the two differ: the cached value is
\* the one of the creator's divisor, and events have been applied since the
\* entry was made.
AliasFollowsCreatorWitness ==
    /\ given # << >>
    /\ given[1].id = "s3"
    /\ subscriptions["s3"].scopes = Scopes
    /\ subscriptions["s3"].compare.cap # given[1].cap
    /\ store.count = 2
    /\ Cached("s3") = Slice(subscriptions["s3"].compare, store)
    /\ Cached("s3") # Slice(given[1], store)

\* C14 (the store changes only in an apply): a step that applies no event
\* (a use_slice, a drop, a read, a dispatch, the stop of the consumer) leaves
\* the store state; and a dispatch the channel accepts appends its event to
\* the queue and leaves the map, every cached value and every scope set, and
\* schedules no scope.
StoreChangesOnlyOnApply ==
    [][/\ applied' = applied => store' = store
       /\ (hooks' # hooks \/ reader' # reader \/ lastDispatch' # lastDispatch)
             => store' = store
       /\ sent' # sent =>
             /\ queue' = Append(queue, sent'[Len(sent')])
             /\ subscriptions' = subscriptions
             /\ cells' = cells
             /\ \A s \in Scopes : notified'[s] = 0]_vars

\* A scope holds a handle from read, the other scope has subscribed and
\* released, an Increment has been applied and another one is dispatched and
\* still queued: the count is the number of Increments applied.
StoreChangesOnlyOnApplyWitness ==
    /\ \E s, u \in Scopes :
          /\ reader[s] # << >>
          /\ hooks[u] = << >>
          /\ releases[u] # << >>
    /\ queue # << >>
    /\ queue[Len(queue)].kind = "Increment"
    /\ store.count = 1
    /\ Cardinality({i \in 1 .. Len(applied) : applied[i].kind = "Increment"}) = 1

EventuallyAppliedOnce ==
    /\ \A k \in 1 .. MaxDispatch :
          (Len(sent) >= k) ~> (closed \/ (Len(applied) >= k /\ applied[k] = sent[k]))
    /\ [](\A i, j \in 1 .. Len(applied) : applied[i] = applied[j] => i = j)

\* Every event the bound allows has been sent, by both producers, and all
\* are applied with the channel still open.
EventuallyAppliedOnceWitness ==
    /\ ~closed
    /\ Len(sent) = MaxDispatch
    /\ applied = sent
    /\ queue = << >>
    /\ {sent[i].from : i \in 1 .. Len(sent)} = Producers

====
